---- MODULE Spec2Model ----
(***************************************************************************)
(* A model of the monitoring engine of gms_monitor.py: the shared          *)
(* MonitorState, the ping worker, the traceroute workers with the          *)
(* traceroute process they drive, and the command loop of main().          *)
(*                                                                         *)
(* Every `with state.lock:` block of the source is one atomic action.      *)
(* Work done outside the lock on thread-local values (the probe, the       *)
(* construction of the summary) is folded into the action that commits     *)
(* its result.  An Optional value is a sequence of length 0 (None) or 1.   *)
(* Times are whole seconds; RTTs are in tenths of a millisecond.           *)
(***************************************************************************)
EXTENDS Integers, Sequences, FiniteSets, TLC

\* ------------------------------------------------------------------ constants

PING_HISTORY_LENGTH == 300
MIN_WINDOW_SIZE == 10
DEFAULT_WINDOW_SIZE == 60
WINDOW_STEP == 10
TRACE_TIMEOUT == 300

\* ------------------------------------------------------------------ bounds

\* Capacity of the two history deques (the program instantiates both with 300).
HistoryCap == 2
\* Probes committed in one run of the model.
MaxSent == 4
\* Traceroute worker threads that can be alive at once.
NumWorkers == 2
\* Output lines one traceroute process produces.
MaxLines == 2
\* The clock advances TickSeconds at a time, at most MaxTicks times.
TickSeconds == 151
MaxTicks == 2
\* Lines a process can have written ahead of its reader.
MaxPipe == 1
\* Largest scroll offset the model follows.
MaxScroll == 2
\* Longest latency history and largest window given to compute_recent_stats.
MaxHistory == 4
MaxWindow == 5
\* Longest list of lines given to build_traceroute_summary.
MaxSummaryLines == 3

\* ------------------------------------------------------------------ values

None == <<>>
Some(v) == <<v>>
Min(a, b) == IF a <= b THEN a ELSE b
Max(a, b) == IF a >= b THEN a ELSE b
Abs(x) == IF x < 0 THEN -x ELSE x

Digits == {"0", "1", "2", "3", "4", "5", "6", "7", "8", "9"}
IsDigit(c) == c \in Digits
IsSpace(c) == c \in {" ", "\t", "\n"}
IsNumChar(c) == IsDigit(c) \/ c = "."
DigitVal(c) == CHOOSE n \in 0..9 : <<"0", "1", "2", "3", "4", "5", "6", "7", "8", "9">>[n + 1] = c

\* ------------------------------------------------------------------ text
\* A text is a sequence of one-character strings.

HasAt(s, i, lit) ==
    /\ i >= 1
    /\ i + Len(lit) - 1 <= Len(s)
    /\ SubSeq(s, i, i + Len(lit) - 1) = lit

\* Index just past the longest run of [\d.] characters that starts at i.
RECURSIVE NumRunEnd(_, _)
NumRunEnd(s, i) ==
    IF i <= Len(s) /\ IsNumChar(s[i]) THEN NumRunEnd(s, i + 1) ELSE i

\* Index just past the longest run of whitespace that starts at i.
RECURSIVE SkipSpaces(_, _)
SkipSpaces(s, i) ==
    IF i <= Len(s) /\ IsSpace(s[i]) THEN SkipSpaces(s, i + 1) ELSE i

RECURSIVE IntOf(_)
IntOf(ds) ==
    IF ds = <<>> THEN 0
    ELSE 10 * IntOf(SubSeq(ds, 1, Len(ds) - 1)) + DigitVal(ds[Len(ds)])

DotPositions(t) == {i \in 1..Len(t) : t[i] = "."}

\* float(t) for a text of digits and dots: it raises ValueError unless t has
\* at least one digit and at most one dot.
FloatOk(t) ==
    /\ Cardinality(DotPositions(t)) <= 1
    /\ \E i \in 1..Len(t) : IsDigit(t[i])

\* The value of float(t) in tenths (the texts of the model carry at most one
\* fractional digit).
Float(t) ==
    LET dot == IF DotPositions(t) = {} THEN Len(t) + 1
               ELSE CHOOSE i \in DotPositions(t) : TRUE
        whole == SubSeq(t, 1, dot - 1)
        frac == SubSeq(t, dot + 1, Len(t))
    IN 10 * IntOf(whole) + (IF frac = <<>> THEN 0 ELSE DigitVal(frac[1]))

\* ------------------------------------------------------------------ run_ping

\* re.search(r"time[=<]([\d.]+)\s*ms", out) matches at i.
TimeMatchAt(out, i) ==
    /\ HasAt(out, i, <<"t", "i", "m", "e">>)
    /\ i + 4 <= Len(out)
    /\ out[i + 4] \in {"=", "<"}
    /\ NumRunEnd(out, i + 5) > i + 5
    /\ HasAt(out, SkipSpaces(out, NumRunEnd(out, i + 5)), <<"m", "s">>)

TimeMatches(out) == {i \in 1..Len(out) : TimeMatchAt(out, i)}

\* group(1) of the leftmost match.
TimeGroup(out) ==
    LET i == CHOOSE j \in TimeMatches(out) : \A k \in TimeMatches(out) : j <= k
    IN SubSeq(out, i + 5, NumRunEnd(out, i + 5) - 1)

\* What subprocess.run gives for one probe: it raised (the process could not
\* run, or the 5 s timeout expired), or it returned an exit status and stdout.
OutRtt10 == <<"t", "i", "m", "e", "=", "1", ".", "0", " ", "m", "s">>
OutRtt35 == <<"t", "i", "m", "e", "=", "3", ".", "5", " ", "m", "s">>
OutRttLt == <<"t", "i", "m", "e", "<", "2", "m", "s">>
OutNoTime == <<"t", "t", "l", "=", "6", "4">>
OutBadNum == <<"t", "i", "m", "e", "=", "1", ".", "2", ".", "3", " ", "m", "s">>

ProbeResults ==
    {[raised |-> TRUE, returncode |-> 0, stdout |-> <<>>],
     [raised |-> FALSE, returncode |-> 1, stdout |-> OutRtt10]}
    \cup {[raised |-> FALSE, returncode |-> 0, stdout |-> o] :
            o \in {OutRtt10, OutRtt35, OutRttLt, OutNoTime, OutBadNum}}

\* run_ping: <<success, rtt>>, rtt an Optional.
run_ping(res) ==
    IF res.raised THEN <<FALSE, None>>
    ELSE IF res.returncode # 0 THEN <<FALSE, None>>
    ELSE IF TimeMatches(res.stdout) = {} THEN <<TRUE, None>>
    ELSE IF ~FloatOk(TimeGroup(res.stdout)) THEN <<TRUE, None>>
    ELSE <<TRUE, Some(Float(TimeGroup(res.stdout)))>>

\* run_ping on every probe result of the model.
ProbeOutcome == [res \in ProbeResults |-> run_ping(res)]

\* ------------------------------------------------------------------ state

VARIABLES
    \* MonitorState: control flags
    running, monitoring, show_help, show_traceroute_full, traceroute_scroll,
    show_controls,
    \* MonitorState: ping statistics
    total_sent, total_recv, last_ping_ms,
    total_success, success_rtt_sum, min_rtt_all, max_rtt_all,
    last_success_rtt_all, jitter_sum_all, jitter_count_all,
    ping_history, loss_history, window_size,
    \* MonitorState: traceroute session
    traceroute_lines, traceroute_running, last_traceroute_error,
    traceroute_summary, last_traceroute_ts,
    \* CURRENT_LANG
    lang,
    \* ping_worker: its position
    ping_pc,
    \* traceroute_worker threads: position and locals of each
    trace_pc, lines, start_time, error_msg, retcode,
    \* the traceroute process each worker started
    proc,
    \* main: its position and the last snapshot draw_ui took
    main_pc, snap,
    \* time.time()
    now,
    \* history of the run: <<success, rtt>> of every committed probe
    probe_log,
    \* one call of a function of the display: its arguments and what it returned
    args, result,
    \* state.lock: the thread that holds it
    lock

flagVars == <<running, monitoring>>
uiVars == <<show_help, show_traceroute_full, traceroute_scroll, show_controls,
            window_size, lang>>
pingVars == <<total_sent, total_recv, last_ping_ms, total_success,
              success_rtt_sum, min_rtt_all, max_rtt_all, last_success_rtt_all,
              jitter_sum_all, jitter_count_all, ping_history, loss_history,
              probe_log>>
sessionVars == <<traceroute_lines, traceroute_running, last_traceroute_error,
                 traceroute_summary, last_traceroute_ts>>
workerVars == <<trace_pc, lines, start_time, error_msg, retcode, proc>>
callVars == <<args, result>>
vars == <<flagVars, uiVars, pingVars, sessionVars, workerVars, ping_pc,
          main_pc, snap, now, callVars, lock>>

Workers == 1..NumWorkers

NoProc == [state |-> "none", pipe |-> <<>>, emitted |-> 0, retcode |-> 0]

\* MonitorState() as main() leaves it when its threads are started.
InitState ==
    /\ running = TRUE
    /\ monitoring = TRUE
    /\ show_help = FALSE
    /\ show_traceroute_full = FALSE
    /\ traceroute_scroll = 0
    /\ show_controls = FALSE
    /\ total_sent = 0
    /\ total_recv = 0
    /\ last_ping_ms = None
    /\ total_success = 0
    /\ success_rtt_sum = 0
    /\ min_rtt_all = None
    /\ max_rtt_all = None
    /\ last_success_rtt_all = None
    /\ jitter_sum_all = 0
    /\ jitter_count_all = 0
    /\ ping_history = <<>>
    /\ loss_history = <<>>
    /\ window_size = DEFAULT_WINDOW_SIZE
    /\ traceroute_lines = <<>>
    /\ traceroute_running = FALSE
    /\ last_traceroute_error = None
    /\ traceroute_summary = None
    /\ last_traceroute_ts = None
    /\ lang = "en"
    \* main() starts the ping thread and the first traceroute thread
    /\ ping_pc = "check"
    /\ trace_pc = [w \in Workers |-> IF w = 1 THEN "entry" ELSE "idle"]
    /\ lines = [w \in Workers |-> <<>>]
    /\ start_time = [w \in Workers |-> 0]
    /\ error_msg = [w \in Workers |-> None]
    /\ retcode = [w \in Workers |-> None]
    /\ proc = [w \in Workers |-> NoProc]
    /\ main_pc = "draw"
    /\ snap = None
    /\ now = 0
    /\ probe_log = <<>>
    /\ lock = None

\* The threads that use state.lock.
PingThread == <<"ping", 0>>
MainThread == <<"main", 0>>
TraceThread(w) == <<"trace", w>>

\* `with state.lock:` taken by thread t: the block runs when the lock is free
\* or was acquired by t before, and leaves the lock free.
WithLock(t) == lock \in {None, Some(t)} /\ lock' = None

\* A step of thread t outside every `with state.lock:` block.
NoLock(t) == lock # Some(t) /\ lock' = lock

Init ==
    /\ InitState
    /\ args = None
    /\ result = None

\* ------------------------------------------------------------------ ping_worker

\* An append that never evicts.
DequeAppendUnbounded(q, x, maxlen) == Append(q, x)

\* deque(maxlen=...).append(x)
DequeAppend(q, x, maxlen) ==
    IF Len(q) >= maxlen THEN Append(Tail(q), x) ELSE Append(q, x)

\* (1.0 - recv / sent) * 100.0 as the exact fraction <<numerator, denominator>>
OverallLossPct(sent, recv) ==
    IF sent = 0 THEN <<0, 1>> ELSE <<100 * (sent - recv), sent>>

\* A commit that counts a probe as sent only when it failed.
NextTotalSentOnFailure(success) == IF success THEN total_sent ELSE total_sent + 1

\* state.total_sent += 1
NextTotalSent(success) == total_sent + 1

\* A commit that counts every probe as received.
NextTotalRecvAlways(success) == total_recv + 1

\* if success: state.total_recv += 1
NextTotalRecv(success) == IF success THEN total_recv + 1 ELSE total_recv

\* A commit that counts every successful probe as a latency sample.
NextTotalSuccessAnySuccess(success, rtt) ==
    IF success THEN total_success + 1 ELSE total_success

\* if success: if rtt is not None: state.total_success += 1
NextTotalSuccess(success, rtt) ==
    IF success /\ rtt # None THEN total_success + 1 ELSE total_success

\* A commit that forgets the last latency on a probe without one.
NextLastSuccessRttAllReset(success, rtt) ==
    IF success /\ rtt # None THEN rtt ELSE None

\* if success: if rtt is not None: state.last_success_rtt_all = rtt
NextLastSuccessRttAll(success, rtt) ==
    IF success /\ rtt # None THEN rtt ELSE last_success_rtt_all

\* A loop that never leaves.
LoopExitNever == FALSE

\* if not state.running: break
LoopExit == ~running

\* A loop that probes whatever the pause flag.
CycleStartsAlways == TRUE

\* monitoring = state.monitoring ... if monitoring:
CycleStarts == monitoring

\* Top of the loop: leave when running is false, else branch on monitoring.
\* The model starts no probe past MaxSent.
PingCheck ==
    /\ ping_pc = "check"
    /\ (~LoopExit /\ CycleStarts) => total_sent < MaxSent
    /\ ping_pc' = IF LoopExit THEN "stopped"
                  ELSE IF CycleStarts THEN "probe" ELSE "sleep"
    /\ WithLock(PingThread)
    /\ UNCHANGED <<flagVars, uiVars, pingVars, sessionVars, workerVars,
                   main_pc, snap, now, callVars>>

\* The commit of one probe result, but for total_sent and the worker's
\* position: lines 189-221.
CommitRest(res) ==
    LET success == ProbeOutcome[res][1]
        rtt == ProbeOutcome[res][2]
        numeric == success /\ rtt # None
        r == rtt[1]
    IN
    /\ total_recv' = NextTotalRecv(success)
    /\ last_ping_ms' = IF success THEN rtt ELSE None
    /\ min_rtt_all' =
         IF ~numeric THEN min_rtt_all
         ELSE IF total_success = 0 THEN Some(r)
         ELSE IF min_rtt_all = None \/ r < min_rtt_all[1] THEN Some(r)
         ELSE min_rtt_all
    /\ max_rtt_all' =
         IF ~numeric THEN max_rtt_all
         ELSE IF total_success = 0 THEN Some(r)
         ELSE IF max_rtt_all = None \/ r > max_rtt_all[1] THEN Some(r)
         ELSE max_rtt_all
    /\ jitter_sum_all' =
         IF numeric /\ last_success_rtt_all # None
         THEN jitter_sum_all + Abs(r - last_success_rtt_all[1])
         ELSE jitter_sum_all
    /\ jitter_count_all' =
         IF numeric /\ last_success_rtt_all # None
         THEN jitter_count_all + 1
         ELSE jitter_count_all
    /\ last_success_rtt_all' = NextLastSuccessRttAll(success, rtt)
    /\ success_rtt_sum' = IF numeric THEN success_rtt_sum + r ELSE success_rtt_sum
    /\ total_success' = NextTotalSuccess(success, rtt)
    /\ ping_history' =
         DequeAppend(ping_history, IF success THEN rtt ELSE None, HistoryCap)
    /\ loss_history' =
         DequeAppend(loss_history, OverallLossPct(total_sent', total_recv'),
                     HistoryCap)
    /\ probe_log' = Append(probe_log, <<success, rtt>>)

\* A commit in two critical sections: total_sent first, the rest later.
PingCommitTorn(res) ==
    \/ /\ ping_pc = "probe"
       /\ total_sent < MaxSent
       /\ total_sent' = total_sent + 1
       /\ ping_pc' = "torn"
       /\ UNCHANGED <<total_recv, last_ping_ms, total_success, success_rtt_sum,
                      min_rtt_all, max_rtt_all, last_success_rtt_all,
                      jitter_sum_all, jitter_count_all, ping_history,
                      loss_history, probe_log>>
       /\ WithLock(PingThread)
       /\ UNCHANGED <<flagVars, uiVars, sessionVars, workerVars, main_pc, snap, now, callVars>>
    \/ /\ ping_pc = "torn"
       /\ total_sent' = total_sent
       /\ CommitRest(res)
       /\ ping_pc' = "sleep"
       /\ WithLock(PingThread)
       /\ UNCHANGED <<flagVars, uiVars, sessionVars, workerVars, main_pc, snap, now, callVars>>

\* The probe returns and its result is committed in one critical section.
PingCommit(res) ==
    /\ ping_pc = "probe"
    /\ total_sent' = NextTotalSent(ProbeOutcome[res][1])
    /\ CommitRest(res)
    /\ ping_pc' = "sleep"
    /\ WithLock(PingThread)
    /\ UNCHANGED <<flagVars, uiVars, sessionVars, workerVars, main_pc, snap, now, callVars>>

\* time.sleep(...) returns, after a cycle or after the paused poll.
PingWake ==
    /\ ping_pc = "sleep"
    /\ ping_pc' = "check"
    /\ NoLock(PingThread)
    /\ UNCHANGED <<flagVars, uiVars, pingVars, sessionVars, workerVars,
                   main_pc, snap, now, callVars>>

PingWorker == PingCheck \/ (\E res \in ProbeResults : PingCommit(res)) \/ PingWake

\* ------------------------------------------------------------------ main

\* draw_ui: the copy of the state it takes under the lock.
Snapshot ==
    [monitoring |-> monitoring,
     last_ping_ms |-> last_ping_ms,
     total_sent |-> total_sent,
     total_recv |-> total_recv,
     ping_history |-> ping_history,
     loss_history |-> loss_history,
     traceroute_lines |-> traceroute_lines,
     traceroute_running |-> traceroute_running,
     traceroute_error |-> last_traceroute_error,
     traceroute_summary |-> traceroute_summary,
     last_traceroute_ts |-> last_traceroute_ts,
     window_size |-> window_size,
     show_help |-> show_help,
     show_traceroute_full |-> show_traceroute_full,
     traceroute_scroll |-> traceroute_scroll,
     show_controls |-> show_controls,
     total_success |-> total_success,
     success_rtt_sum |-> success_rtt_sum,
     min_rtt_all |-> min_rtt_all,
     max_rtt_all |-> max_rtt_all,
     jitter_sum_all |-> jitter_sum_all,
     jitter_count_all |-> jitter_count_all]

\* draw_ui takes the lock and copies the state into its locals.
Draw ==
    /\ main_pc = "draw"
    /\ snap' = Some(Snapshot)
    /\ main_pc' = "render"
    /\ WithLock(MainThread)
    /\ UNCHANGED <<flagVars, uiVars, pingVars, sessionVars, workerVars,
                   ping_pc, now, callVars>>

\* draw_ui renders from its locals and returns; main goes on to getch().
Render ==
    /\ main_pc = "render"
    /\ snap' = None
    /\ main_pc' = "getch"
    /\ NoLock(MainThread)
    /\ UNCHANGED <<flagVars, uiVars, pingVars, sessionVars, workerVars,
                   ping_pc, now, callVars>>

\* draw_ui from taking the lock to its return, in one step: the copy it
\* renders from is its own and is gone when it returns.
DrawUi ==
    /\ main_pc = "draw"
    /\ main_pc' = "getch"
    /\ WithLock(MainThread)
    /\ UNCHANGED <<flagVars, uiVars, pingVars, sessionVars, workerVars,
                   ping_pc, snap, now, callVars>>

\* getch() timed out (ch == -1) or gave a key no branch handles.
NoKey ==
    /\ main_pc = "getch"
    /\ main_pc' = "draw"
    /\ NoLock(MainThread)
    /\ UNCHANGED <<flagVars, uiVars, pingVars, sessionVars, workerVars,
                   ping_pc, snap, now, callVars>>

KeyQ ==
    /\ main_pc = "getch"
    /\ running' = FALSE
    /\ main_pc' = "done"
    /\ WithLock(MainThread)
    /\ UNCHANGED <<monitoring, uiVars, pingVars, sessionVars, workerVars,
                   ping_pc, snap, now, callVars>>

KeyP ==
    /\ main_pc = "getch"
    /\ monitoring' = FALSE
    /\ main_pc' = "draw"
    /\ WithLock(MainThread)
    /\ UNCHANGED <<running, uiVars, pingVars, sessionVars, workerVars,
                   ping_pc, snap, now, callVars>>

KeyR ==
    /\ main_pc = "getch"
    /\ monitoring' = TRUE
    /\ main_pc' = "draw"
    /\ WithLock(MainThread)
    /\ UNCHANGED <<running, uiVars, pingVars, sessionVars, workerVars,
                   ping_pc, snap, now, callVars>>

KeyH ==
    /\ main_pc = "getch"
    /\ show_help' = ~show_help
    /\ main_pc' = "draw"
    /\ WithLock(MainThread)
    /\ UNCHANGED <<flagVars, show_traceroute_full, traceroute_scroll,
                   show_controls, window_size, lang, pingVars, sessionVars,
                   workerVars, ping_pc, snap, now, callVars>>

KeyF ==
    /\ main_pc = "getch"
    /\ show_traceroute_full' = ~show_traceroute_full
    /\ traceroute_scroll' = 0
    /\ main_pc' = "draw"
    /\ WithLock(MainThread)
    /\ UNCHANGED <<flagVars, show_help, show_controls, window_size, lang,
                   pingVars, sessionVars, workerVars, ping_pc, snap, now, callVars>>

KeyUp ==
    /\ main_pc = "getch"
    /\ traceroute_scroll' = Max(0, traceroute_scroll - 1)
    /\ main_pc' = "draw"
    /\ WithLock(MainThread)
    /\ UNCHANGED <<flagVars, show_help, show_traceroute_full, show_controls,
                   window_size, lang, pingVars, sessionVars, workerVars,
                   ping_pc, snap, now, callVars>>

KeyDown ==
    /\ main_pc = "getch"
    /\ traceroute_scroll < MaxScroll
    /\ traceroute_scroll' = traceroute_scroll + 1
    /\ main_pc' = "draw"
    /\ WithLock(MainThread)
    /\ UNCHANGED <<flagVars, show_help, show_traceroute_full, show_controls,
                   window_size, lang, pingVars, sessionVars, workerVars,
                   ping_pc, snap, now, callVars>>

\* cycle_language over SUPPORTED_LANGS = ["en", "id"]
KeyL ==
    /\ main_pc = "getch"
    /\ lang' = IF lang = "en" THEN "id" ELSE "en"
    /\ main_pc' = "draw"
    /\ NoLock(MainThread)
    /\ UNCHANGED <<flagVars, show_help, show_traceroute_full,
                   traceroute_scroll, show_controls, window_size, pingVars,
                   sessionVars, workerVars, ping_pc, snap, now, callVars>>

KeyK ==
    /\ main_pc = "getch"
    /\ show_controls' = ~show_controls
    /\ main_pc' = "draw"
    /\ WithLock(MainThread)
    /\ UNCHANGED <<flagVars, show_help, show_traceroute_full,
                   traceroute_scroll, window_size, lang, pingVars, sessionVars,
                   workerVars, ping_pc, snap, now, callVars>>

\* '+': state.window_size = min(new_size, PING_HISTORY_LENGTH)
WindowPlus(w) == Min(w + WINDOW_STEP, PING_HISTORY_LENGTH)

\* A '-' that clamps at zero instead of MIN_WINDOW_SIZE.
WindowMinusClampZero(w) == Max(w - WINDOW_STEP, 0)

\* '-': new_size below MIN_WINDOW_SIZE becomes MIN_WINDOW_SIZE
WindowMinus(w) ==
    IF w - WINDOW_STEP < MIN_WINDOW_SIZE THEN MIN_WINDOW_SIZE ELSE w - WINDOW_STEP

KeyPlus ==
    /\ main_pc = "getch"
    /\ window_size' = WindowPlus(window_size)
    /\ main_pc' = "draw"
    /\ WithLock(MainThread)
    /\ UNCHANGED <<flagVars, show_help, show_traceroute_full,
                   traceroute_scroll, show_controls, lang, pingVars,
                   sessionVars, workerVars, ping_pc, snap, now, callVars>>

KeyMinus ==
    /\ main_pc = "getch"
    /\ window_size' = WindowMinus(window_size)
    /\ main_pc' = "draw"
    /\ WithLock(MainThread)
    /\ UNCHANGED <<flagVars, show_help, show_traceroute_full,
                   traceroute_scroll, show_controls, lang, pingVars,
                   sessionVars, workerVars, ping_pc, snap, now, callVars>>

\* ------------------------------------------------------------------ traceroute output

\* line.rstrip("\n")
RECURSIVE RStripNewline(_)
RStripNewline(t) ==
    IF t # <<>> /\ t[Len(t)] = "\n" THEN RStripNewline(SubSeq(t, 1, Len(t) - 1))
    ELSE t

\* Index just past the longest run of digits that starts at i.
RECURSIVE DigitRunEnd(_, _)
DigitRunEnd(s, i) ==
    IF i <= Len(s) /\ IsDigit(s[i]) THEN DigitRunEnd(s, i + 1) ELSE i

\* hop_re = r"^\s*(\d+)\s+" matches the line
HopMatch(line) ==
    LET a == SkipSpaces(line, 1)
        b == DigitRunEnd(line, a)
    IN b > a /\ b <= Len(line) /\ IsSpace(line[b])

\* int(m.group(1))
HopNumber(line) ==
    LET a == SkipSpaces(line, 1)
    IN IntOf(SubSeq(line, a, DigitRunEnd(line, a) - 1))

\* "*" in line
HasStar(line) == \E i \in 1..Len(line) : line[i] = "*"

\* Start positions of the matches of ms_re = r"([\d.]+)\s*ms": the runs of
\* [\d.] characters, taken whole, that whitespace and then "ms" follow.
MsStarts(line) ==
    {i \in 1..Len(line) :
        /\ IsNumChar(line[i])
        /\ (i = 1 \/ ~IsNumChar(line[i - 1]))
        /\ HasAt(line, SkipSpaces(line, NumRunEnd(line, i)), <<"m", "s">>)}

\* The values float() accepts among the matches, in order of appearance.
RECURSIVE MsValuesFrom(_, _)
MsValuesFrom(line, i) ==
    IF i > Len(line) THEN <<>>
    ELSE IF i \in MsStarts(line)
    THEN LET g == SubSeq(line, i, NumRunEnd(line, i) - 1)
         IN (IF FloatOk(g) THEN <<Float(g)>> ELSE <<>>)
            \o MsValuesFrom(line, NumRunEnd(line, i))
    ELSE MsValuesFrom(line, i + 1)

MsValues(line) == MsValuesFrom(line, 1)

RECURSIVE SeqMax(_)
SeqMax(q) ==
    IF Len(q) = 1 THEN q[1] ELSE Max(q[1], SeqMax(Tail(q)))

RECURSIVE SeqMin(_)
SeqMin(q) ==
    IF Len(q) = 1 THEN q[1] ELSE Min(q[1], SeqMin(Tail(q)))

RECURSIVE SeqSum(_)
SeqSum(q) == IF q = <<>> THEN 0 ELSE q[1] + SeqSum(Tail(q))

RECURSIVE SelectHops(_)
SelectHops(ls) ==
    IF ls = <<>> THEN <<>>
    ELSE (IF HopMatch(ls[1]) THEN <<ls[1]>> ELSE <<>>) \o SelectHops(Tail(ls))

RECURSIVE MapHopNumber(_)
MapHopNumber(ls) ==
    IF ls = <<>> THEN <<>> ELSE <<HopNumber(ls[1])>> \o MapHopNumber(Tail(ls))

RECURSIVE ConcatMsValues(_)
ConcatMsValues(ls) ==
    IF ls = <<>> THEN <<>> ELSE MsValues(ls[1]) \o ConcatMsValues(Tail(ls))

\* The lines the loop of build_traceroute_summary goes over: lines[1:]
SummaryScope(ls) == Tail(ls)

\* build_traceroute_summary: None, or the three values the summary text is
\* formatted from.
build_traceroute_summary(ls) ==
    IF ls = <<>> THEN None
    ELSE LET hopLines == SelectHops(SummaryScope(ls))
             hop_numbers == MapHopNumber(hopLines)
             timeout_hops == MapHopNumber(SelectSeq(hopLines, HasStar))
             all_ms == ConcatMsValues(hopLines)
         IN IF hop_numbers = <<>> THEN None
            ELSE Some([hops |-> SeqMax(hop_numbers),
                       max_ms |-> IF all_ms = <<>> THEN 0 ELSE SeqMax(all_ms),
                       timeout_hops |-> timeout_hops])

\* t.strip(): t without its leading and trailing whitespace.
RECURSIVE RStrip(_)
RStrip(t) ==
    IF t # <<>> /\ IsSpace(t[Len(t)]) THEN RStrip(SubSeq(t, 1, Len(t) - 1)) ELSE t

Strip(t) == RStrip(SubSeq(t, SkipSpaces(t, 1), Len(t)))

\* Position of the first c in t, Len(t) + 1 when there is none.
RECURSIVE FindFrom(_, _, _)
FindFrom(t, c, i) ==
    IF i > Len(t) \/ t[i] = c THEN i ELSE FindFrom(t, c, i + 1)

Find(t, c) == FindFrom(t, c, 1)

\* Index just past the longest run of non-whitespace that starts at i.
RECURSIVE TokenEnd(_, _)
TokenEnd(t, i) ==
    IF i <= Len(t) /\ ~IsSpace(t[i]) THEN TokenEnd(t, i + 1) ELSE i

\* `sub in t` for texts
Contains(t, sub) == \E i \in 1..(Len(t) + 1) : HasAt(t, i, sub)

\* m.end() of hop_re on a line it matches: just past the whitespace that
\* follows the hop number.
HopEnd(line) == SkipSpaces(line, DigitRunEnd(line, SkipSpaces(line, 1)))

\* The host column of a row: "host (ip)", "host", or "?".
HostIp(line) ==
    LET rest == Strip(SubSeq(line, HopEnd(line), Len(line)))
        open == Find(rest, "(")
        paren == open <= Len(rest) /\ Find(rest, ")") <= Len(rest)
        before == Strip(SubSeq(rest, 1, open - 1))
        after == SubSeq(rest, open + 1, Len(rest))
        host == IF paren THEN (IF before = <<>> THEN <<"?">> ELSE before)
                ELSE IF rest = <<>> THEN <<"?">>
                ELSE SubSeq(rest, 1, TokenEnd(rest, 1) - 1)
        ip == IF paren THEN Strip(SubSeq(after, 1, Find(after, ")") - 1)) ELSE <<>>
    IN IF ip # <<>> /\ ~Contains(host, ip)
       THEN host \o <<" ", "(">> \o ip \o <<")">>
       ELSE host

\* The RTT column of a row: None stands for the text "timeout", otherwise the
\* values min / avg / max are formatted from.
RttText(line) ==
    LET rtts == MsValues(line)
    IN IF rtts # <<>>
       THEN Some([mn |-> SeqMin(rtts), avg |-> <<SeqSum(rtts), Len(rtts)>>,
                  mx |-> SeqMax(rtts)])
       ELSE None

\* The header row of the table.
TableHeader == [hop |-> "Hop", host_ip |-> "Host / IP", rtt_text |-> "RTTs (ms)"]

RECURSIVE TableRows(_)
TableRows(ls) ==
    IF ls = <<>> THEN <<>>
    ELSE (IF HopMatch(ls[1])
          THEN <<[hop |-> HopNumber(ls[1]), host_ip |-> HostIp(ls[1]),
                  rtt_text |-> RttText(ls[1])]>>
          ELSE <<>>)
         \o TableRows(Tail(ls))

\* build_traceroute_table: the header row and one row per hop line (the
\* padding of the columns is not modelled).
build_traceroute_table(ls) ==
    IF ls = <<>> THEN <<>> ELSE <<TableHeader>> \o TableRows(ls)

\* Lines a traceroute process writes, each with its newline.
LineHeader == <<"t", "o", " ", "h", "\n">>
LineHop1 == <<" ", "1", " ", "h", " ", "(", "h", ")", " ", "1", ".", "2", " ",
              "m", "s", " ", "1", ".", "1", " ", "m", "s", "\n">>
LineHop2 == <<" ", "2", " ", "*", " ", "*", " ", "*", "\n">>
LineHop3 == <<" ", "3", " ", "h", " ", "3", ".", "5", " ", "m", "s", " ", "*", "\n">>
TraceOutputLines == {LineHeader, LineHop1}

\* Exit statuses of a traceroute process that ends by itself.
ExitCodes == {0, 1}

ErrStart == [kind |-> "Error starting traceroute", code |-> 0]
ErrTimeout == [kind |-> "traceroute timed out after 300 seconds", code |-> 0]
ErrExit(code) == [kind |-> "traceroute exited with code", code |-> code]
ErrRun == [kind |-> "Error running traceroute", code |-> 0]

\* ------------------------------------------------------------------ traceroute process

\* A process is "running" (stdout open), "hung" (alive, writing nothing more,
\* never exiting by itself), "closed" (stdout closed, still alive) or
\* "exited" (with retcode).  pipe holds the lines written and not yet read.

ProcEmit(w, l) ==
    /\ proc[w].state = "running"
    /\ proc[w].emitted < MaxLines
    /\ Len(proc[w].pipe) < MaxPipe
    /\ proc' = [proc EXCEPT ![w].pipe = Append(@, l), ![w].emitted = @ + 1]
    /\ UNCHANGED lock
    /\ UNCHANGED <<flagVars, uiVars, pingVars, sessionVars, trace_pc, lines,
                   start_time, error_msg, retcode, ping_pc, main_pc, snap, now, callVars>>

ProcHang(w) ==
    /\ proc[w].state = "running"
    /\ proc' = [proc EXCEPT ![w].state = "hung"]
    /\ UNCHANGED lock
    /\ UNCHANGED <<flagVars, uiVars, pingVars, sessionVars, trace_pc, lines,
                   start_time, error_msg, retcode, ping_pc, main_pc, snap, now, callVars>>

ProcClose(w) ==
    /\ proc[w].state = "running"
    /\ proc' = [proc EXCEPT ![w].state = "closed"]
    /\ UNCHANGED lock
    /\ UNCHANGED <<flagVars, uiVars, pingVars, sessionVars, trace_pc, lines,
                   start_time, error_msg, retcode, ping_pc, main_pc, snap, now, callVars>>

ProcExit(w, code) ==
    /\ proc[w].state \in {"running", "closed"}
    /\ proc' = [proc EXCEPT ![w].state = "exited", ![w].retcode = code]
    /\ UNCHANGED lock
    /\ UNCHANGED <<flagVars, uiVars, pingVars, sessionVars, trace_pc, lines,
                   start_time, error_msg, retcode, ping_pc, main_pc, snap, now, callVars>>

\* proc.kill(): SIGKILL ends a live process with status -9.
Killed(p) ==
    IF p.state = "exited" THEN p
    ELSE [p EXCEPT !.state = "exited", !.retcode = -9]

Process(w) ==
    \/ \E l \in TraceOutputLines : ProcEmit(w, l)
    \/ ProcHang(w)
    \/ ProcClose(w)
    \/ \E code \in ExitCodes : ProcExit(w, code)

Tick ==
    /\ now < MaxTicks * TickSeconds
    /\ now' = now + TickSeconds
    /\ UNCHANGED lock
    /\ UNCHANGED <<flagVars, uiVars, pingVars, sessionVars, workerVars,
                   ping_pc, main_pc, snap, callVars>>

\* ------------------------------------------------------------------ traceroute_worker

\* An entry without the guard.
TraceEntryNeverBlocked == FALSE

\* The entry guard: if state.traceroute_running: return
TraceEntryBlocked == traceroute_running

\* A start that keeps the lines of the session before.
EntryLinesKept == traceroute_lines

\* The start of a session: state.traceroute_lines = []
EntryLines == <<>>

\* First critical section: return at once, or open a new session.
TraceEntry(w) ==
    /\ trace_pc[w] = "entry"
    /\ IF TraceEntryBlocked
       THEN /\ trace_pc' = [trace_pc EXCEPT ![w] = "idle"]
            /\ UNCHANGED sessionVars
       ELSE /\ traceroute_running' = TRUE
            /\ last_traceroute_error' = None
            /\ traceroute_lines' = EntryLines
            /\ traceroute_summary' = None
            /\ last_traceroute_ts' = Some(now)
            /\ trace_pc' = [trace_pc EXCEPT ![w] = "launch"]
    /\ WithLock(TraceThread(w))
    /\ UNCHANGED <<flagVars, uiVars, pingVars, lines, start_time, error_msg,
                   retcode, proc, ping_pc, main_pc, snap, now, callVars>>

\* The launch-failure commit: state.traceroute_lines = []
LaunchFailureLines == <<>>

\* A launch-failure commit that leaves the flag set.
LaunchFailureLeavesRunning == TRUE

\* The launch-failure commit: state.traceroute_running = False
LaunchFailureRunning == FALSE

\* subprocess.Popen raises: the failure is committed and the thread returns.
TraceLaunchFail(w) ==
    /\ trace_pc[w] = "launch"
    /\ traceroute_lines' = LaunchFailureLines
    /\ last_traceroute_error' = Some(ErrStart)
    /\ traceroute_running' = LaunchFailureRunning
    /\ trace_pc' = [trace_pc EXCEPT ![w] = "idle"]
    /\ WithLock(TraceThread(w))
    /\ UNCHANGED <<flagVars, uiVars, pingVars, traceroute_summary,
                   last_traceroute_ts, lines, start_time, error_msg, retcode,
                   proc, ping_pc, main_pc, snap, now, callVars>>

\* subprocess.Popen succeeds: lines = [], start_time = time.time(), error_msg = None
TraceLaunchOk(w) ==
    /\ trace_pc[w] = "launch"
    /\ proc' = [proc EXCEPT ![w] = [NoProc EXCEPT !.state = "running"]]
    /\ lines' = [lines EXCEPT ![w] = <<>>]
    /\ start_time' = [start_time EXCEPT ![w] = now]
    /\ error_msg' = [error_msg EXCEPT ![w] = None]
    /\ trace_pc' = [trace_pc EXCEPT ![w] = "stream"]
    /\ NoLock(TraceThread(w))
    /\ UNCHANGED <<flagVars, uiVars, pingVars, sessionVars, retcode, ping_pc,
                   main_pc, snap, now, callVars>>

\* A publication of the newest line alone.
PublishedLastLine(ls) == <<ls[Len(ls)]>>

\* state.traceroute_lines = list(lines)
PublishedLines(ls) == ls

\* `for line in proc.stdout` yields a line; it is appended and published.
TraceReadLine(w) ==
    /\ trace_pc[w] = "stream"
    /\ proc[w].pipe # <<>>
    /\ lines' = [lines EXCEPT ![w] = Append(@, RStripNewline(Head(proc[w].pipe)))]
    /\ proc' = [proc EXCEPT ![w].pipe = Tail(@)]
    /\ traceroute_lines' = PublishedLines(lines'[w])
    /\ trace_pc' = [trace_pc EXCEPT ![w] = "timecheck"]
    /\ WithLock(TraceThread(w))
    /\ UNCHANGED <<flagVars, uiVars, pingVars, traceroute_running,
                   last_traceroute_error, traceroute_summary,
                   last_traceroute_ts, start_time, error_msg, retcode,
                   ping_pc, main_pc, snap, now, callVars>>

\* if time.time() - start_time > 300
TimedOut(w) == now - start_time[w] > TRACE_TIMEOUT

\* The ceiling is looked at after each line read: kill and leave the loop, or
\* go back to waiting for the next line.
TraceTimeCheck(w) ==
    /\ trace_pc[w] = "timecheck"
    /\ IF TimedOut(w)
       THEN /\ proc' = [proc EXCEPT ![w] = Killed(@)]
            /\ error_msg' = [error_msg EXCEPT ![w] = Some(ErrTimeout)]
            /\ trace_pc' = [trace_pc EXCEPT ![w] = "wait"]
       ELSE /\ trace_pc' = [trace_pc EXCEPT ![w] = "stream"]
            /\ UNCHANGED <<proc, error_msg>>
    /\ NoLock(TraceThread(w))
    /\ UNCHANGED <<flagVars, uiVars, pingVars, sessionVars, lines, start_time,
                   retcode, ping_pc, main_pc, snap, now, callVars>>

\* The output stream ends: stdout is closed and nothing is left to read.
TraceEof(w) ==
    /\ trace_pc[w] = "stream"
    /\ proc[w].pipe = <<>>
    /\ proc[w].state \in {"closed", "exited"}
    /\ trace_pc' = [trace_pc EXCEPT ![w] = "wait"]
    /\ NoLock(TraceThread(w))
    /\ UNCHANGED <<flagVars, uiVars, pingVars, sessionVars, lines, start_time,
                   error_msg, retcode, proc, ping_pc, main_pc, snap, now, callVars>>

\* Reading the next line raises (output that cannot be decoded): the outer
\* except records it, proc.wait is skipped.
TraceReadError(w) ==
    /\ trace_pc[w] = "stream"
    /\ proc[w].pipe # <<>>
    /\ proc' = [proc EXCEPT ![w].pipe = Tail(@)]
    /\ error_msg' = [error_msg EXCEPT ![w] = Some(ErrRun)]
    /\ trace_pc' = [trace_pc EXCEPT ![w] = "final"]
    /\ NoLock(TraceThread(w))
    /\ UNCHANGED <<flagVars, uiVars, pingVars, sessionVars, lines, start_time,
                   retcode, ping_pc, main_pc, snap, now, callVars>>

\* retcode of proc.wait(timeout=5): the exit status, or None when the wait
\* times out on a process that is still alive.
WaitResult(p) == IF p.state = "exited" THEN Some(p.retcode) ELSE None

\* A wait that ignores the exit status.
ErrorAfterWaitIgnoresStatus(err, rc) == err

\* if error_msg is None and retcode not in (0, None): error_msg = "... exited with code"
ErrorAfterWait(err, rc) ==
    IF err = None /\ rc # None /\ rc # Some(0)
    THEN Some(ErrExit(rc[1]))
    ELSE err

TraceWait(w) ==
    /\ trace_pc[w] = "wait"
    /\ retcode' = [retcode EXCEPT ![w] = WaitResult(proc[w])]
    /\ error_msg' = [error_msg EXCEPT ![w] = ErrorAfterWait(@, retcode'[w])]
    /\ trace_pc' = [trace_pc EXCEPT ![w] = "final"]
    /\ NoLock(TraceThread(w))
    /\ UNCHANGED <<flagVars, uiVars, pingVars, sessionVars, lines, start_time,
                   proc, ping_pc, main_pc, snap, now, callVars>>

\* A summary built whatever the error.
FinalSummaryDespiteError(ls, err) == build_traceroute_summary(ls)

\* summary = build_traceroute_summary(lines) if error_msg is None else None
FinalSummary(ls, err) == IF err = None THEN build_traceroute_summary(ls) ELSE None

\* An end in two critical sections: the flag first, the results later.
TraceFinalTorn(w) ==
    \/ /\ trace_pc[w] = "final"
       /\ traceroute_running' = FALSE
       /\ trace_pc' = [trace_pc EXCEPT ![w] = "results"]
       /\ UNCHANGED <<traceroute_lines, last_traceroute_error,
                      traceroute_summary, last_traceroute_ts, lines,
                      start_time, error_msg, retcode, proc>>
       /\ WithLock(TraceThread(w))
       /\ UNCHANGED <<flagVars, uiVars, pingVars, ping_pc, main_pc, snap, now,
                      callVars>>
    \/ /\ trace_pc[w] = "results"
       /\ traceroute_lines' = lines[w]
       /\ last_traceroute_error' = error_msg[w]
       /\ traceroute_summary' = FinalSummary(lines[w], error_msg[w])
       /\ last_traceroute_ts' = Some(now)
       /\ trace_pc' = [trace_pc EXCEPT ![w] = "idle"]
       /\ lines' = [lines EXCEPT ![w] = <<>>]
       /\ start_time' = [start_time EXCEPT ![w] = 0]
       /\ error_msg' = [error_msg EXCEPT ![w] = None]
       /\ retcode' = [retcode EXCEPT ![w] = None]
       /\ proc' = [proc EXCEPT ![w] = NoProc]
       /\ WithLock(TraceThread(w))
       /\ UNCHANGED <<traceroute_running, flagVars, uiVars, pingVars, ping_pc,
                      main_pc, snap, now, callVars>>

\* Last critical section: the session is finalized and the thread ends.
TraceFinal(w) ==
    /\ trace_pc[w] = "final"
    /\ traceroute_lines' = lines[w]
    /\ last_traceroute_error' = error_msg[w]
    /\ traceroute_running' = FALSE
    /\ traceroute_summary' = FinalSummary(lines[w], error_msg[w])
    /\ last_traceroute_ts' = Some(now)
    /\ trace_pc' = [trace_pc EXCEPT ![w] = "idle"]
    /\ lines' = [lines EXCEPT ![w] = <<>>]
    /\ start_time' = [start_time EXCEPT ![w] = 0]
    /\ error_msg' = [error_msg EXCEPT ![w] = None]
    /\ retcode' = [retcode EXCEPT ![w] = None]
    /\ proc' = [proc EXCEPT ![w] = NoProc]
    /\ WithLock(TraceThread(w))
    /\ UNCHANGED <<flagVars, uiVars, pingVars, ping_pc, main_pc, snap, now, callVars>>

TraceWorker(w) ==
    \/ TraceEntry(w)
    \/ TraceLaunchFail(w)
    \/ TraceLaunchOk(w)
    \/ TraceReadLine(w)
    \/ TraceTimeCheck(w)
    \/ TraceEof(w)
    \/ TraceReadError(w)
    \/ TraceWait(w)
    \/ TraceFinal(w)

\* 't': the flag is read under the lock; a thread is started if it was false.
KeyT ==
    /\ main_pc = "getch"
    /\ traceroute_running \/ \E w \in Workers : trace_pc[w] = "idle"
    /\ main_pc' = IF traceroute_running THEN "draw" ELSE "spawn"
    /\ WithLock(MainThread)
    /\ UNCHANGED <<flagVars, uiVars, pingVars, sessionVars, workerVars,
                   ping_pc, snap, now, callVars>>

\* threading.Thread(target=traceroute_worker).start()
KeyTSpawn ==
    /\ main_pc = "spawn"
    /\ \E w \in Workers :
         /\ trace_pc[w] = "idle"
         /\ \A v \in Workers : trace_pc[v] = "idle" => w <= v
         /\ trace_pc' = [trace_pc EXCEPT ![w] = "entry"]
    /\ main_pc' = "draw"
    /\ NoLock(MainThread)
    /\ UNCHANGED <<flagVars, uiVars, pingVars, sessionVars, lines, start_time,
                   error_msg, retcode, proc, ping_pc, snap, now, callVars>>

\* ------------------------------------------------------------------ state.lock

Threads == {PingThread, MainThread} \cup {TraceThread(w) : w \in Workers}

\* Thread t is at the head of a `with state.lock:` block.
AtSection(t) ==
    IF t = PingThread THEN ping_pc \in {"check", "probe"}
    ELSE IF t = MainThread THEN main_pc \in {"draw", "getch"}
    ELSE trace_pc[t[2]] \in {"entry", "launch", "stream", "final"}

\* Thread t is inside a call that blocks: time.sleep, the wait for the next
\* line of proc.stdout, proc.wait.
Waiting(t) ==
    IF t = PingThread THEN ping_pc = "sleep"
    ELSE IF t = MainThread THEN FALSE
    ELSE \/ trace_pc[t[2]] = "stream" /\ proc[t[2]].pipe = <<>>
         \/ trace_pc[t[2]] = "wait"

\* A lock taken before the blocking call has returned.
MayAcquireWhileWaiting(t) == AtSection(t)

\* The lock is asked for after the blocking call before the block has returned.
MayAcquire(t) == AtSection(t) /\ ~Waiting(t)

\* Thread t takes the free lock.  (The ping worker takes it at the top of the
\* loop only when the model lets the check run.)
Acquire(t) ==
    /\ lock = None
    /\ MayAcquire(t)
    /\ (t = PingThread /\ ping_pc = "check" /\ ~LoopExit /\ CycleStarts)
          => total_sent < MaxSent
    /\ lock' = Some(t)
    /\ UNCHANGED <<flagVars, uiVars, pingVars, sessionVars, workerVars, ping_pc,
                   main_pc, snap, now, callVars>>

\* The probe that blocks longest: subprocess.run raises at its timeout.
TimedOutProbes == {res \in ProbeResults : res.raised}

\* The blocks under the lock, each run by the thread that holds it.
Sections ==
    /\ lock # None
    /\ \/ PingCheck
       \/ \E res \in TimedOutProbes : PingCommit(res)
       \/ Draw
       \/ KeyQ
       \/ KeyP
       \/ KeyR
       \/ \E w \in Workers : TraceEntry(w)
       \/ \E w \in Workers : TraceLaunchFail(w)
       \/ \E w \in Workers : TraceReadLine(w)
       \/ \E w \in Workers : TraceFinal(w)

\* The steps of the threads outside the lock.
MainOutside == Render \/ NoKey
TraceOutside(w) ==
    \/ TraceLaunchOk(w)
    \/ TraceTimeCheck(w)
    \/ TraceEof(w)
    \/ TraceReadError(w)
    \/ TraceWait(w)

\* ------------------------------------------------------------------ compute_recent_stats

\* A quotient num / den of the code's float arithmetic, kept exact as
\* <<num, den>> with den > 0.
Frac(num, den) == <<num, den>>
FracLess(f, k) == f[1] < k * f[2]

\* ping_history[-window_size:] for window_size > 0
RecentSlice(history, window) ==
    SubSeq(history, Max(Len(history) - window, 0) + 1, Len(history))

\* [v for v in recent if v is not None]
RECURSIVE Successes(_)
Successes(recent) ==
    IF recent = <<>> THEN <<>>
    ELSE (IF recent[1] # None THEN <<recent[1][1]>> ELSE <<>>)
         \o Successes(Tail(recent))

\* [abs(successes[i] - successes[i - 1]) for i in range(1, recent_success)]
Deltas(successes) ==
    [i \in 1..(Len(successes) - 1) |-> Abs(successes[i + 1] - successes[i])]

\* The tuple returned when there is nothing to compute from.
EmptyStats ==
    [loss |-> Frac(0, 1), avg |-> None, count |-> 0, lost |-> 0,
     min |-> None, max |-> None, jitter |-> None]

\* recent_lost = recent_sent - recent_success
RecentLost(recent_sent, recent_success) == recent_sent - recent_success

\* A jitter computed from one success on.
JitterFromOne(successes) ==
    IF Len(successes) > 0
    THEN Some(Frac(SeqSum(Deltas(successes)), Max(1, Len(Deltas(successes)))))
    ELSE None

\* jitter_ms: sum(deltas) / len(deltas) if recent_success > 1 else None
Jitter(successes) ==
    IF Len(successes) > 1
    THEN Some(Frac(SeqSum(Deltas(successes)), Len(Deltas(successes))))
    ELSE None

\* compute_recent_stats(ping_history, window_size)
compute_recent_stats(history, window) ==
    IF window <= 0 THEN EmptyStats
    ELSE LET recent == RecentSlice(history, window)
             recent_count == Len(recent)
             successes == Successes(recent)
             recent_sent == recent_count
             recent_success == Len(successes)
             recent_lost == RecentLost(recent_sent, recent_success)
         IN IF recent_count = 0 THEN EmptyStats
            ELSE [loss |-> IF recent_sent > 0 THEN Frac(100 * recent_lost, recent_sent)
                           ELSE Frac(0, 1),
                  avg |-> IF recent_success > 0
                          THEN Some(Frac(SeqSum(successes), recent_success))
                          ELSE None,
                  count |-> recent_count,
                  lost |-> recent_lost,
                  min |-> IF recent_success > 0 THEN Some(SeqMin(successes)) ELSE None,
                  max |-> IF recent_success > 0 THEN Some(SeqMax(successes)) ELSE None,
                  jitter |-> Jitter(successes)]

\* Entries a latency history holds: a lost probe, or an RTT in tenths of a ms.
HistoryEntries == {None, Some(10), Some(20), Some(35)}

RECURSIVE SeqsUpTo(_, _)
SeqsUpTo(S, n) ==
    IF n = 0 THEN {<<>>}
    ELSE LET shorter == SeqsUpTo(S, n - 1)
         IN shorter \cup {Append(q, x) : q \in shorter, x \in S}

StatsInputs ==
    {[fn |-> "compute_recent_stats", ping_history |-> h, window_size |-> w] :
        h \in SeqsUpTo(HistoryEntries, MaxHistory), w \in 1..MaxWindow}

\* One call of compute_recent_stats, as draw_ui makes it on its copy of the
\* history and of the window size.
CallStats ==
    /\ args # None
    /\ result = None
    /\ args[1].fn = "compute_recent_stats"
    /\ result' = Some(compute_recent_stats(args[1].ping_history, args[1].window_size))
    /\ UNCHANGED <<flagVars, uiVars, pingVars, sessionVars, workerVars, ping_pc,
                   main_pc, snap, now, args>>
    /\ UNCHANGED lock

\* ------------------------------------------------------------------ draw_ui: quality label

\* recent_count >= max(20, window_size // 2) and recent_avg_ping is not None
Adequate(recent_count, window, recent_avg_ping) ==
    recent_count >= Max(20, window \div 2) /\ recent_avg_ping # None

\* A first test that lets loss of exactly 1.0 % through.
ExcellentInclusive(recent_loss_pct, recent_avg_ping, jitter_ms) ==
    /\ recent_loss_pct[1] <= recent_loss_pct[2]
    /\ FracLess(recent_avg_ping[1], 10 * 40)
    /\ (jitter_ms = None \/ FracLess(jitter_ms[1], 10 * 5))

\* recent_loss_pct < 1.0 and recent_avg_ping < 40 and
\* (jitter_ms is None or jitter_ms < 5); RTTs are in tenths of a ms.
Excellent(recent_loss_pct, recent_avg_ping, jitter_ms) ==
    /\ FracLess(recent_loss_pct, 1)
    /\ FracLess(recent_avg_ping[1], 10 * 40)
    /\ (jitter_ms = None \/ FracLess(jitter_ms[1], 10 * 5))

\* The label draw_ui derives from the recent statistics.
quality_label(recent_count, window, recent_loss_pct, recent_avg_ping, jitter_ms) ==
    IF Adequate(recent_count, window, recent_avg_ping)
    THEN IF Excellent(recent_loss_pct, recent_avg_ping, jitter_ms)
         THEN "QUALITY_EXCELLENT"
         ELSE IF FracLess(recent_loss_pct, 2) /\ FracLess(recent_avg_ping[1], 10 * 80)
         THEN "QUALITY_GOOD"
         ELSE IF FracLess(recent_loss_pct, 5) /\ FracLess(recent_avg_ping[1], 10 * 150)
         THEN "QUALITY_FAIR"
         ELSE "QUALITY_POOR"
    ELSE "QUALITY_UNKNOWN"

\* Recent statistics around every threshold of the label: window sizes the
\* '+' and '-' keys can reach, counts up to the window, and the losses,
\* averages and jitters compute_recent_stats can return for them.
QualityWindows == {10, 40, 60, 100, 300}
QualityCounts == {0, 10, 19, 20, 29, 30, 40, 49, 50, 60, 100, 149, 150, 300}
QualityLost(c) == {l \in {0, 1, 2, 5, c - 1, c} : 0 <= l /\ l <= c}
QualityAvgs == {Frac(399, 1), Frac(800, 2), Frac(799, 1), Frac(800, 1),
                Frac(1499, 1), Frac(1500, 1)}
QualityJitters == {Frac(49, 1), Frac(50, 1)}

QualityInputsFor(w, c) ==
    {[fn |-> "quality_label",
      window_size |-> w,
      recent_count |-> c,
      recent_lost |-> l,
      recent_loss_pct |-> IF c > 0 THEN Frac(100 * l, c) ELSE Frac(0, 1),
      recent_avg_ping |-> IF c - l > 0 THEN Some(a) ELSE None,
      jitter_ms |-> IF c - l > 1 THEN Some(j) ELSE None] :
        l \in QualityLost(c), a \in QualityAvgs, j \in QualityJitters}

QualityInputs ==
    UNION {IF c <= w THEN QualityInputsFor(w, c) ELSE {} :
             w \in QualityWindows, c \in QualityCounts}

\* draw_ui derives the label from the values compute_recent_stats returned.
CallQuality ==
    /\ args # None
    /\ result = None
    /\ args[1].fn = "quality_label"
    /\ result' = Some(quality_label(args[1].recent_count, args[1].window_size,
                                    args[1].recent_loss_pct,
                                    args[1].recent_avg_ping, args[1].jitter_ms))
    /\ UNCHANGED <<flagVars, uiVars, pingVars, sessionVars, workerVars, ping_pc,
                   main_pc, snap, now, args>>
    /\ UNCHANGED lock

\* ------------------------------------------------------------------ summary and table of a trace

\* Lines a finished session can hold, as the worker stores them.
SummaryLines ==
    {RStripNewline(l) : l \in {LineHeader, LineHop1, LineHop2, LineHop3}}

SummaryInputs ==
    {[fn |-> "build_traceroute_summary", lines |-> ls] :
        ls \in SeqsUpTo(SummaryLines, MaxSummaryLines)}

\* The summary the worker builds from the lines of a session that ended
\* without error, and the table draw_ui builds from the same lines.
CallSummary ==
    /\ args # None
    /\ result = None
    /\ args[1].fn = "build_traceroute_summary"
    /\ result' = Some([summary |-> build_traceroute_summary(args[1].lines),
                       table |-> build_traceroute_table(args[1].lines)])
    /\ UNCHANGED <<flagVars, uiVars, pingVars, sessionVars, workerVars, ping_pc,
                   main_pc, snap, now, args>>
    /\ UNCHANGED lock

\* ------------------------------------------------------------------ specifications

MainPing == Draw \/ Render \/ NoKey \/ KeyQ \/ KeyP \/ KeyR
MainTrace == DrawUi \/ NoKey \/ KeyT \/ KeyTSpawn
MainUI == Draw \/ Render \/ NoKey \/ KeyH \/ KeyF \/ KeyUp \/ KeyDown \/ KeyL \/ KeyK
             \/ KeyPlus \/ KeyMinus

NextPing == PingWorker \/ MainPing
NextTrace == (\E w \in Workers : TraceWorker(w) \/ Process(w)) \/ Tick \/ MainTrace
NextUI == MainUI
NextCalls == CallStats \/ CallQuality \/ CallSummary

\* A traceroute process that writes header lines only.
HeaderProcess(w) ==
    \/ ProcEmit(w, LineHeader)
    \/ ProcHang(w)
    \/ ProcClose(w)
    \/ \E code \in ExitCodes : ProcExit(w, code)

\* The ping worker, main with its snapshot and the keys q, p and r, and the
\* traceroute worker main() starts with its process, the lock taken and
\* released in separate steps.
NextLock ==
    \/ \E t \in Threads : Acquire(t)
    \/ Sections
    \/ PingWake
    \/ MainOutside
    \/ \E w \in Workers : TraceOutside(w) \/ HeaderProcess(w)

Next == NextPing \/ NextTrace \/ NextUI \/ NextCalls \/ NextLock

\* The whole program.
Spec == Init /\ [][Next]_vars
\* The ping worker and the commands it observes.
SpecPing == Init /\ [][NextPing]_vars
\* The traceroute workers, their processes, the clock and the trace command
\* (draw_ui as one step).
SpecTrace == Init /\ [][NextTrace]_vars
\* The display commands.
SpecUI == Init /\ [][NextUI]_vars

\* compute_recent_stats on every history and window of StatsInputs.
InitStats == InitState /\ args \in {Some(a) : a \in StatsInputs} /\ result = None
SpecStats == InitStats /\ [][CallStats]_vars

\* The quality label on every input of QualityInputs.
InitQuality == InitState /\ args \in {Some(a) : a \in QualityInputs} /\ result = None
SpecQuality == InitQuality /\ [][CallQuality]_vars

\* build_traceroute_summary and build_traceroute_table on every list of
\* SummaryInputs.
InitSummary == InitState /\ args \in {Some(a) : a \in SummaryInputs} /\ result = None
SpecSummary == InitSummary /\ [][CallSummary]_vars

\* The threads with the lock taken and released in separate steps.
SpecLock == Init /\ [][NextLock]_vars

\* A thread that holds the lock runs its block; main runs, and gets the lock
\* if the lock is free again and again.  Nothing is assumed of the workers
\* outside the lock or of the processes.
SpecLockFair ==
    /\ SpecLock
    /\ WF_vars(Sections)
    /\ WF_vars(Render)
    /\ SF_vars(Acquire(MainThread))

\* With weak fairness of the ping worker: its thread is scheduled, and
\* subprocess.run(..., timeout=5) returns or raises within its timeout.
SpecPingFair == SpecPing /\ WF_vars(PingWorker)

\* With weak fairness of every thread, of every live process and of the clock.
SpecTraceFair ==
    /\ SpecTrace
    /\ \A w \in Workers : WF_vars(TraceWorker(w)) /\ WF_vars(Process(w))
    /\ WF_vars(Tick)
    /\ WF_vars(MainTrace)

\* ------------------------------------------------------------------ reference values
\* What the probes committed so far (probe_log) determine.

RECURSIVE LogRecv(_)
LogRecv(log) ==
    IF log = <<>> THEN 0
    ELSE (IF log[Len(log)][1] THEN 1 ELSE 0) + LogRecv(SubSeq(log, 1, Len(log) - 1))

RECURSIVE LogHistory(_)
LogHistory(log) ==
    IF log = <<>> THEN <<>>
    ELSE LogHistory(SubSeq(log, 1, Len(log) - 1))
         \o <<IF log[Len(log)][1] THEN log[Len(log)][2] ELSE None>>

RECURSIVE LogLoss(_)
LogLoss(log) ==
    IF log = <<>> THEN <<>>
    ELSE LogLoss(SubSeq(log, 1, Len(log) - 1))
         \o <<OverallLossPct(Len(log), LogRecv(log))>>

RECURSIVE LogRtts(_)
LogRtts(log) ==
    IF log = <<>> THEN <<>>
    ELSE LogRtts(SubSeq(log, 1, Len(log) - 1))
         \o (IF log[Len(log)][1] /\ log[Len(log)][2] # None
             THEN log[Len(log)][2] ELSE <<>>)

RECURSIVE SumAbsDeltas(_)
SumAbsDeltas(q) ==
    IF Len(q) < 2 THEN 0
    ELSE SumAbsDeltas(SubSeq(q, 1, Len(q) - 1)) + Abs(q[Len(q)] - q[Len(q) - 1])

LastN(q, n) == SubSeq(q, Len(q) - Min(n, Len(q)) + 1, Len(q))

PastEntryGuard(w) == trace_pc[w] \in {"launch", "stream", "timecheck", "wait", "final"}

monitorState == <<flagVars, show_help, show_traceroute_full, traceroute_scroll,
                  show_controls, window_size, pingVars, sessionVars>>

\* ------------------------------------------------------------------ claims

\* C1: in every reachable state total_recv <= total_sent.
C1_RecvAtMostSent == total_recv <= total_sent

C1_Witness == total_recv >= 1 /\ total_recv < total_sent

\* C2: at most one traceroute worker is past its entry guard at any time,
\* also when several worker threads have been started.
C2_SingleFlight == Cardinality({w \in Workers : PastEntryGuard(w)}) <= 1

C2_Witness ==
    \E w, v \in Workers :
        /\ trace_pc[w] = "stream"
        /\ lines[w] # <<>>
        /\ trace_pc[v] = "entry"

\* C3: a trace request made while traceroute_running is true (the 't' key, the
\* start of a worker thread, a worker thread reaching its entry guard) changes
\* no field of the monitor state and lets no further worker past the guard.
C3_RequestWhileRunningIsNoOp ==
    [][(traceroute_running /\ (KeyT \/ KeyTSpawn \/ \E w \in Workers : TraceEntry(w)))
         => /\ UNCHANGED monitorState
            /\ \A w \in Workers : PastEntryGuard(w)' => PastEntryGuard(w)]_vars

C3_Witness ==
    /\ traceroute_running
    /\ traceroute_lines # <<>>
    /\ \E w, v \in Workers : trace_pc[w] = "timecheck" /\ trace_pc[v] = "entry"

\* The record s holds the fields as they are after exactly the probes of log.
SnapshotOfCycles(s, log) ==
    LET k == Len(log)
        rtts == LogRtts(log)
    IN /\ s.total_sent = k
       /\ s.total_recv = LogRecv(log)
       /\ Len(s.ping_history) = Min(k, HistoryCap)
       /\ Len(s.loss_history) = Min(k, HistoryCap)
       /\ s.ping_history = LastN(LogHistory(log), HistoryCap)
       /\ s.loss_history = LastN(LogLoss(log), HistoryCap)
       /\ s.last_ping_ms = (IF k = 0 THEN None ELSE LogHistory(log)[k])
       /\ s.total_success = Len(rtts)
       /\ s.success_rtt_sum = SeqSum(rtts)
       /\ s.min_rtt_all = (IF rtts = <<>> THEN None ELSE Some(SeqMin(rtts)))
       /\ s.max_rtt_all = (IF rtts = <<>> THEN None ELSE Some(SeqMax(rtts)))
       /\ s.jitter_sum_all = SumAbsDeltas(rtts)
       /\ s.jitter_count_all = Max(0, Len(rtts) - 1)

\* C4: a snapshot taken by draw_ui is the state after a whole number k of ping
\* commits: total_sent = k, both histories hold the last min(k, capacity)
\* entries of those k commits, total_recv and the lifetime aggregates are those
\* of the first k probes.
C4_SnapshotIsWholeCycles ==
    snap # None =>
        /\ snap[1].total_sent <= Len(probe_log)
        /\ SnapshotOfCycles(snap[1], SubSeq(probe_log, 1, snap[1].total_sent))

C4_Witness ==
    /\ snap # None
    /\ snap[1].total_sent > HistoryCap
    /\ snap[1].total_success >= 2
    /\ total_sent > snap[1].total_sent

\* new is old with one entry added at the end, the oldest dropped if old was full.
AppendedInOrder(old, new) ==
    /\ Len(new) = Min(Len(old) + 1, HistoryCap)
    /\ SubSeq(new, 1, Len(new) - 1) =
         (IF Len(old) = HistoryCap THEN Tail(old) ELSE old)

\* C5: the histories never hold more than their capacity; a commit on a full
\* history drops the oldest entry, keeps the others in order and puts the new
\* entry last.
C5_HistoriesBounded ==
    /\ [](Len(ping_history) <= HistoryCap /\ Len(loss_history) <= HistoryCap)
    /\ [][total_sent' # total_sent =>
            /\ AppendedInOrder(ping_history, ping_history')
            /\ AppendedInOrder(loss_history, loss_history')
            /\ ping_history'[Len(ping_history')] = LogHistory(probe_log')[Len(probe_log')]
            /\ loss_history'[Len(loss_history')] = OverallLossPct(total_sent', total_recv')]_vars

C5_Witness ==
    /\ total_sent > HistoryCap
    /\ Len(ping_history) = HistoryCap
    /\ Len(loss_history) = HistoryCap
    /\ ping_history[1] # ping_history[HistoryCap]

\* C6: window_size stays within [MIN_WINDOW_SIZE, PING_HISTORY_LENGTH]; a '+'
\* or '-' that would pass a bound settles at the bound, and so does its
\* repetition.
C6_WindowClamped ==
    /\ [](window_size \in MIN_WINDOW_SIZE..PING_HISTORY_LENGTH)
    /\ [][/\ (KeyPlus /\ window_size + WINDOW_STEP >= PING_HISTORY_LENGTH)
               => window_size' = PING_HISTORY_LENGTH
          /\ (KeyMinus /\ window_size - WINDOW_STEP <= MIN_WINDOW_SIZE)
               => window_size' = MIN_WINDOW_SIZE]_vars

C6_Witness ==
    /\ window_size = PING_HISTORY_LENGTH
    /\ snap # None
    /\ snap[1].window_size = PING_HISTORY_LENGTH

\* C7: traceroute_summary is present only if last_traceroute_error is absent
\* and traceroute_lines holds a line that begins with a hop number.
C7_SummaryOnlyWithHops ==
    traceroute_summary # None =>
        /\ last_traceroute_error = None
        /\ \E i \in 1..Len(traceroute_lines) : HopMatch(traceroute_lines[i])

C7_Witness == traceroute_summary # None /\ ~traceroute_running

\* C8: every trace session that sets traceroute_running eventually clears it.
C8_SessionEnds == traceroute_running ~> ~traceroute_running

\* C9: the final commit of a run that timed out, or whose exit status was
\* non-zero, sets last_traceroute_error, leaves no summary, clears
\* traceroute_running and stores every line read.
C9_FailedRunCommit ==
    [][\A w \in Workers :
         (TraceFinal(w) /\ (error_msg[w] = Some(ErrTimeout)
                            \/ (retcode[w] # None /\ retcode[w] # Some(0))))
           => /\ last_traceroute_error' # None
              /\ traceroute_summary' = None
              /\ ~traceroute_running'
              /\ traceroute_lines' = lines[w]]_vars

C9_Witness ==
    /\ ~traceroute_running
    /\ last_traceroute_error = Some(ErrExit(1))
    /\ Len(traceroute_lines) = MaxLines
    /\ traceroute_summary = None

\* C10: a launch failure returns the session to idle in one commit, with the
\* error set, no lines and no summary, and the next request opens a session.
C10_LaunchFailure ==
    /\ [](last_traceroute_error = Some(ErrStart) =>
            /\ ~traceroute_running
            /\ traceroute_lines = <<>>
            /\ traceroute_summary = None)
    /\ [][\A w \in Workers :
            /\ TraceLaunchFail(w) => last_traceroute_error' = Some(ErrStart)
            /\ (TraceEntry(w) /\ last_traceroute_error = Some(ErrStart))
                 => (traceroute_running' /\ trace_pc'[w] = "launch")]_vars

C10_Witness ==
    /\ last_traceroute_error = Some(ErrStart)
    /\ last_traceroute_ts # None
    /\ now > last_traceroute_ts[1]
    /\ \E w \in Workers : trace_pc[w] = "entry"

\* This step commits one probe (the ping worker's second critical section).
PingCommitStep == Len(probe_log') = Len(probe_log) + 1

\* The outcome <<success, rtt>> of the probe this step commits.
CommittedOutcome == probe_log'[Len(probe_log')]

lifetimeAggregates == <<total_success, success_rtt_sum, min_rtt_all, max_rtt_all,
                        last_success_rtt_all, jitter_sum_all, jitter_count_all>>

\* C11: the commit of a Failure probe adds 1 to total_sent, leaves total_recv,
\* appends the absence marker to ping_history, sets last_ping_ms to None and
\* leaves the worker in its loop (at its sleep); the worker leaves the loop
\* only at the loop top and only when running is false; and after every commit
\* the worker comes back to the loop top.
C11_FailureIsLossAndLoopGoesOn ==
    /\ [][(PingCommitStep /\ ~CommittedOutcome[1]) =>
            /\ total_sent' = total_sent + 1
            /\ total_recv' = total_recv
            /\ ping_history'[Len(ping_history')] = None
            /\ last_ping_ms' = None
            /\ ping_pc' = "sleep"]_vars
    /\ [][(ping_pc' = "stopped" /\ ping_pc # "stopped") =>
            (ping_pc = "check" /\ ~running)]_vars
    /\ (ping_pc = "sleep" ~> ping_pc = "check")

C11_Witness ==
    /\ running
    /\ ping_pc = "probe"
    /\ Len(probe_log) >= 2
    /\ ~probe_log[1][1]
    /\ ~probe_log[2][1]
    /\ total_recv = 0
    /\ last_ping_ms = None

\* C12: once running is false the ping worker reaches its stopped position,
\* from the active and from the paused branch alike, and commits nothing but
\* the probe that was in flight: it starts no probe, and only a worker that is
\* in a probe changes the statistics.
C12_ShutdownStopsWorker ==
    /\ (~running ~> ping_pc = "stopped")
    /\ [](ping_pc = "stopped" => ~running)
    /\ [][~running =>
            /\ (ping_pc' = "probe" => ping_pc = "probe")
            /\ (ping_pc # "probe" => UNCHANGED pingVars)
            /\ (PingCommitStep => ping_pc' # "probe")]_vars

C12_Witness ==
    /\ ~running
    /\ ~monitoring
    /\ ping_pc = "stopped"
    /\ total_sent >= 1

\* C13: the commit of a SuccessNoRtt probe (exit status 0, no latency parsed)
\* adds 1 to total_sent and to total_recv and leaves total_success,
\* success_rtt_sum, min_rtt_all, max_rtt_all, last_success_rtt_all,
\* jitter_sum_all and jitter_count_all as they were.
C13_SuccessNoRttCommit ==
    [][(PingCommitStep /\ CommittedOutcome = <<TRUE, None>>) =>
         /\ total_sent' = total_sent + 1
         /\ total_recv' = total_recv + 1
         /\ UNCHANGED lifetimeAggregates]_vars

C13_Witness ==
    /\ Len(probe_log) >= 2
    /\ probe_log[Len(probe_log)] = <<TRUE, None>>
    /\ total_success >= 1
    /\ jitter_count_all >= 1
    /\ total_recv = total_success + 1

\* C18: the commit of a SuccessNoRtt probe does not set last_ping_ms to None
\* when it held a value before the probe.
C18_NoRttKeepsLastPing ==
    [][(PingCommitStep /\ CommittedOutcome = <<TRUE, None>> /\ last_ping_ms # None)
         => last_ping_ms' # None]_vars

\* C19: jitter_sum_all is the sum of |r_i - r_(i-1)| over the consecutive
\* elements of the subsequence of Success RTTs of all the probes committed so
\* far, and jitter_count_all is the number of those pairs; Failure and
\* SuccessNoRtt probes in between neither reset nor contribute.
C19_LifetimeJitter ==
    /\ jitter_sum_all = SumAbsDeltas(LogRtts(probe_log))
    /\ jitter_count_all = Max(0, Len(LogRtts(probe_log)) - 1)

C19_Witness ==
    /\ probe_log = <<<<TRUE, Some(10)>>, <<FALSE, None>>, <<TRUE, None>>,
                     <<TRUE, Some(35)>>>>
    /\ jitter_count_all = 1
    /\ jitter_sum_all = 25

\* C20: while monitoring is false the worker starts no probe, only a worker
\* that is in a probe changes total_sent, total_recv, the histories or the
\* lifetime aggregates, and its commit ends that probe (so at most the probe in
\* flight is committed); once monitoring is true again the worker starts a
\* probe, unless it is paused again or shut down first (or the model's MaxSent
\* probes are used up).
C20_PauseStopsNewCycles ==
    /\ [][~monitoring =>
            /\ (ping_pc' = "probe" => ping_pc = "probe")
            /\ (ping_pc # "probe" => UNCHANGED pingVars)
            /\ (PingCommitStep => ping_pc' # "probe")]_vars
    /\ ((monitoring /\ running /\ total_sent < MaxSent)
          ~> (ping_pc = "probe" \/ ~monitoring \/ ~running))

C20_Witness ==
    /\ snap # None
    /\ ~snap[1].monitoring
    /\ ~monitoring
    /\ running
    /\ total_sent = snap[1].total_sent + 1
    /\ ping_pc = "sleep"

\* Positions of the last min(w, Len(h)) entries of h, and those among them
\* that hold a value.
WindowIdx(h, w) == (Len(h) - Min(w, Len(h)) + 1)..Len(h)
PresentIdx(h, w) == {i \in WindowIdx(h, w) : h[i] # None}

RECURSIVE SumAt(_, _)
SumAt(h, S) ==
    IF S = {} THEN 0
    ELSE LET i == CHOOSE j \in S : TRUE IN h[i][1] + SumAt(h, S \ {i})

\* Pairs of positions of S with no position of S between them.
Neighbours(S) ==
    {p \in S \X S : p[1] < p[2] /\ ~\E k \in S : p[1] < k /\ k < p[2]}

RECURSIVE SumGaps(_, _)
SumGaps(h, pairs) ==
    IF pairs = {} THEN 0
    ELSE LET p == CHOOSE q \in pairs : TRUE
         IN Abs(h[p[2]][1] - h[p[1]][1]) + SumGaps(h, pairs \ {p})

FracEq(a, b) == a[1] * b[2] = b[1] * a[2]

\* C14: for every history h and window w >= 1, compute_recent_stats returns
\* count = min(w, len(h)), lost = the number of absence markers among the last
\* count entries, loss = 100 * lost / count (0 when count = 0), avg, min and
\* max of the present values (None when there is none) and jitter = the mean
\* absolute difference of consecutive present values in stored order, absence
\* markers between them skipped (None when fewer than 2 values are present).
C14_RecentStats ==
    (result # None /\ args[1].fn = "compute_recent_stats") =>
        LET h == args[1].ping_history
            w == args[1].window_size
            r == result[1]
            P == PresentIdx(h, w)
            n == Cardinality(P)
        IN /\ w >= 1
           /\ r.count = Min(w, Len(h))
           /\ r.count = Cardinality(WindowIdx(h, w))
           /\ r.lost = Cardinality(WindowIdx(h, w) \ P)
           /\ FracEq(r.loss, IF r.count = 0 THEN <<0, 1>>
                             ELSE <<100 * r.lost, r.count>>)
           /\ (n = 0) => (r.avg = None /\ r.min = None /\ r.max = None)
           /\ (n > 0) =>
                /\ r.avg # None /\ FracEq(r.avg[1], <<SumAt(h, P), n>>)
                /\ r.min # None /\ r.min[1] \in {h[i][1] : i \in P}
                /\ \A i \in P : r.min[1] <= h[i][1]
                /\ r.max # None /\ r.max[1] \in {h[i][1] : i \in P}
                /\ \A i \in P : r.max[1] >= h[i][1]
           /\ (n < 2) => r.jitter = None
           /\ (n >= 2) =>
                /\ r.jitter # None
                /\ FracEq(r.jitter[1], <<SumGaps(h, Neighbours(P)), n - 1>>)

C14_Witness ==
    /\ result # None
    /\ args[1].fn = "compute_recent_stats"
    /\ args[1].ping_history = <<Some(10), Some(35), None, Some(20)>>
    /\ args[1].window_size = 3
    /\ result[1].count = 3
    /\ result[1].lost = 1
    /\ result[1].jitter = Some(<<15, 1>>)
    /\ result[1].avg = Some(<<55, 2>>)

QualityLabels == {"QUALITY_UNKNOWN", "QUALITY_EXCELLENT", "QUALITY_GOOD",
                  "QUALITY_FAIR", "QUALITY_POOR"}

\* C15: the label is UNKNOWN exactly when count < max(20, window_size / 2) or
\* there is no average; otherwise it is EXCELLENT when loss < 1.0, avg < 40 and
\* jitter is absent or < 5, else GOOD when loss < 2.0 and avg < 80, else FAIR
\* when loss < 5.0 and avg < 150, else POOR; loss of exactly 1.0 % or an
\* average of exactly 40 ms is never EXCELLENT; the label is one of the five.
C15_QualityClassification ==
    (result # None /\ args[1].fn = "quality_label") =>
        LET a == args[1]
            q == result[1]
            loss == a.recent_loss_pct
            avg == a.recent_avg_ping[1]
            adequate == /\ a.recent_count >= 20
                        /\ 2 * a.recent_count >= a.window_size
                        /\ a.recent_avg_ping # None
            E == /\ loss[1] < loss[2]
                 /\ avg[1] < 400 * avg[2]
                 /\ (a.jitter_ms # None => a.jitter_ms[1][1] < 50 * a.jitter_ms[1][2])
            G == loss[1] < 2 * loss[2] /\ avg[1] < 800 * avg[2]
            F == loss[1] < 5 * loss[2] /\ avg[1] < 1500 * avg[2]
        IN /\ q \in QualityLabels
           /\ (q = "QUALITY_UNKNOWN") <=> ~adequate
           /\ (q = "QUALITY_EXCELLENT") <=> (adequate /\ E)
           /\ (q = "QUALITY_GOOD") <=> (adequate /\ ~E /\ G)
           /\ (q = "QUALITY_FAIR") <=> (adequate /\ ~E /\ ~G /\ F)
           /\ (q = "QUALITY_POOR") <=> (adequate /\ ~E /\ ~G /\ ~F)
           /\ FracEq(loss, <<1, 1>>) => q # "QUALITY_EXCELLENT"
           /\ (a.recent_avg_ping # None /\ FracEq(avg, <<400, 1>>))
                => q # "QUALITY_EXCELLENT"

C15_Witness ==
    /\ result # None
    /\ args[1].fn = "quality_label"
    /\ args[1].recent_count = 100
    /\ args[1].recent_lost = 1
    /\ args[1].window_size = 100
    /\ args[1].recent_avg_ping = Some(<<399, 1>>)
    /\ args[1].jitter_ms = Some(<<49, 1>>)
    /\ result[1] = "QUALITY_GOOD"

\* The hop lines among all the lines ls, the first line included.
AllHopLines(ls) == SelectSeq(ls, HopMatch)

\* C16: the maximum RTT of the summary is the largest `<number> ms` sample of
\* all the lines that begin with a hop number, the first line included (0 when
\* there is no sample); for the lines hop 1 with 1.2 and 1.1 ms, hop 2 with
\* `* * *`, it is 1.2.
C16_SummaryMaxOverAllHops ==
    (result # None /\ args[1].fn = "build_traceroute_summary") =>
        LET ls == args[1].lines
            samples == ConcatMsValues(AllHopLines(ls))
        IN /\ result[1].summary # None =>
                result[1].summary[1].max_ms =
                    (IF samples = <<>> THEN 0 ELSE SeqMax(samples))
           /\ ls = <<RStripNewline(LineHop1), RStripNewline(LineHop2)>> =>
                /\ result[1].summary # None
                /\ result[1].summary[1].max_ms = 12

\* C17: the summary is absent exactly when no line begins with a hop number;
\* otherwise its hop count is the number of lines that begin with a hop
\* number, which is the number of rows build_traceroute_table makes of them.
C17_SummaryHopCount ==
    (result # None /\ args[1].fn = "build_traceroute_summary") =>
        LET ls == args[1].lines
        IN /\ (result[1].summary = None) <=> (AllHopLines(ls) = <<>>)
           /\ result[1].summary # None =>
                /\ result[1].summary[1].hops = Len(AllHopLines(ls))
                /\ result[1].summary[1].hops = Len(result[1].table) - 1

\* C21: whenever traceroute_running is true, last_traceroute_error and
\* traceroute_summary are absent and traceroute_lines holds lines of the
\* running session only (the lines its worker has read); the step that sets
\* traceroute_running also empties traceroute_lines, clears the error and the
\* summary and records the start time.
C21_StartClearsSession ==
    /\ [](traceroute_running =>
            /\ last_traceroute_error = None
            /\ traceroute_summary = None
            /\ \E w \in Workers : PastEntryGuard(w) /\ traceroute_lines = lines[w])
    /\ [][(~traceroute_running /\ traceroute_running') =>
            /\ traceroute_lines' = <<>>
            /\ last_traceroute_error' = None
            /\ traceroute_summary' = None
            /\ last_traceroute_ts' = Some(now)]_vars

C21_Witness ==
    /\ traceroute_running
    /\ traceroute_lines = <<>>
    /\ last_traceroute_ts = Some(now)
    /\ now > 0
    /\ \E w \in Workers : w > 1 /\ trace_pc[w] = "launch"

IsPrefix(a, b) == Len(a) <= Len(b) /\ SubSeq(b, 1, Len(a)) = a

\* The lines worker w has read, followed by those its process has written and
\* the worker has not read yet.
WrittenSoFar(w) ==
    lines[w] \o [i \in 1..Len(proc[w].pipe) |-> RStripNewline(proc[w].pipe[i])]

C23_EndIsOneCommit ==
    /\ [][(~traceroute_running /\ ~traceroute_running') =>
            UNCHANGED sessionVars]_vars
    /\ [][(traceroute_running /\ ~traceroute_running') =>
            \E w \in Workers :
                /\ PastEntryGuard(w)
                /\ trace_pc'[w] = "idle"
                /\ traceroute_lines' = lines[w]
                /\ \/ /\ trace_pc[w] = "final"
                      /\ last_traceroute_error' = error_msg[w]
                      /\ traceroute_summary' =
                           (IF error_msg[w] = None
                            THEN build_traceroute_summary(lines[w]) ELSE None)
                      /\ last_traceroute_ts' = Some(now)
                   \/ /\ trace_pc[w] = "launch"
                      /\ last_traceroute_error' = Some(ErrStart)
                      /\ traceroute_summary' = None]_vars
    /\ [][(~traceroute_running /\ traceroute_running') =>
            \E w \in Workers : trace_pc[w] = "entry" /\ trace_pc'[w] = "launch"]_vars

C23_Witness ==
    /\ ~traceroute_running
    /\ main_pc = "getch"
    /\ last_traceroute_error = Some(ErrTimeout)
    /\ traceroute_lines # <<>>
    /\ last_traceroute_ts = Some(now)
    /\ \A w \in Workers : trace_pc[w] = "idle"

\* C24: when there is a summary, a row of the table reads "timeout" (no RTT
\* sample on its line) exactly when its hop number is in the summary's list
\* of timed-out hops; for the lines header, hop 3 with one 3.5 ms sample and
\* one `*`, hop 3 is not listed.
C24_TableAndSummaryAgreeOnTimeouts ==
    (result # None /\ args[1].fn = "build_traceroute_summary") =>
        LET summary == result[1].summary
            table == result[1].table
        IN summary # None =>
             \A i \in 2..Len(table) :
                (table[i].rtt_text = None) <=>
                    (\E j \in 1..Len(summary[1].timeout_hops) :
                        summary[1].timeout_hops[j] = table[i].hop)

\* C26: total_success <= total_recv <= total_sent; min_rtt_all and
\* max_rtt_all are both None exactly when total_success = 0, and otherwise
\* are the smallest and the largest RTT of the Success probes committed so
\* far (so min <= max); jitter_count_all = max(0, total_success - 1); and
\* last_ping_ms is None or equals last_success_rtt_all.
C26_LifetimeInvariants ==
    LET rtts == LogRtts(probe_log)
    IN /\ total_success <= total_recv
       /\ total_recv <= total_sent
       /\ total_success = Len(rtts)
       /\ (min_rtt_all = None) <=> (total_success = 0)
       /\ (max_rtt_all = None) <=> (total_success = 0)
       /\ total_success > 0 =>
            /\ min_rtt_all = Some(SeqMin(rtts))
            /\ max_rtt_all = Some(SeqMax(rtts))
            /\ min_rtt_all[1] <= max_rtt_all[1]
       /\ jitter_count_all = Max(0, total_success - 1)
       /\ last_ping_ms = None \/ last_ping_ms = last_success_rtt_all

C26_Witness ==
    /\ probe_log = <<<<TRUE, Some(35)>>, <<TRUE, None>>, <<FALSE, None>>,
                     <<TRUE, Some(10)>>>>
    /\ total_success = 2 /\ total_recv = 3 /\ total_sent = 4
    /\ min_rtt_all = Some(10) /\ max_rtt_all = Some(35)
    /\ last_ping_ms = Some(10)

\* C27: while nothing has been evicted from ping_history, the lost count
\* compute_recent_stats reports over a window that covers the whole history
\* is total_sent - total_recv.
C27_RecentLostIsLifetimeLost ==
    (total_sent <= HistoryCap /\ Len(ping_history) = total_sent
        /\ window_size >= Len(ping_history)) =>
        compute_recent_stats(ping_history, window_size).lost
            = total_sent - total_recv

\* C25: a thread that holds the lock is at the head of a block under the lock
\* and is in no blocking call (no sleep, no wait for a line, no wait for the
\* process), so its block can run at once; and main, as long as it has not
\* quit, always eventually holds the lock, whatever the workers and the
\* processes do.
C25_LockNeverHeldAcrossWait ==
    /\ [](\A t \in Threads : lock = Some(t) => AtSection(t) /\ ~Waiting(t))
    /\ (main_pc # "done") ~> (lock = Some(MainThread))

C25_Witness ==
    /\ lock = Some(MainThread)
    /\ main_pc = "draw"
    /\ ping_pc = "sleep"
    /\ \E w \in Workers :
         /\ trace_pc[w] = "stream"
         /\ proc[w].state = "hung"
         /\ proc[w].pipe = <<>>

====
